---- MODULE Spec2Model ----
(***************************************************************************)
(* A model of analbot: the SQLite-backed sales store (data.py), the        *)
(* analytics queries over it (analytics.py) and the bot handlers that call *)
(* them (bot.py).                                                          *)
(*                                                                         *)
(* Dates are day numbers: the code stores ISO YYYY-MM-DD text and compares *)
(* it as text, which orders dates chronologically.  Amounts are whole      *)
(* numbers of the smallest currency unit.  A mean is kept as the exact     *)
(* fraction [num, den] the division is applied to.                         *)
(***************************************************************************)
EXTENDS Integers, Sequences, FiniteSets, Bags, TLC

\* ---- bounds of the model ----
MaxToday == 9
MaxRows == 3
MaxBatch == 2

\* ---- constants of the program ----
WindowDays == 7
MinDays == 3
TopLimit == 3

Callers == {"u1", "u2"}
NoOne == "none"
Products == {"A", "B"}
\* what one unit of each product sells for
Price == [p \in Products |-> IF p = "A" THEN 1 ELSE 2]
\* the days sales are dated: one long ago, three around the first today
FirstToday == WindowDays + 1
Days == {1, FirstToday - 1, FirstToday, FirstToday + 1}
Required == {"date", "product", "quantity", "amount"}

VARIABLES
    today,      \* datetime.now().date()
    db,         \* the committed database file: the sales table and its AUTOINCREMENT counter
    lock,       \* the caller holding SQLite's write lock, or NoOne
    txn,        \* per caller: the working copy of its open transaction (open = FALSE: none)
    pc,         \* per caller: where it is in handle_document / insert_sales
    need,       \* per caller: rows of the uploaded file not yet read
    recs,       \* per caller: the records list insert_sales has built
    sent,       \* per caller: how many of recs executemany has inserted
    entry,      \* per caller: the table as it was when the call started (history)
    tainted,    \* per caller: the file held a malformed row (history)
    acked,      \* bag of the records of every batch whose insert was committed (history)
    ret         \* what the operation that ran last returned

vars == <<today, db, lock, txn, pc, need, recs, sent, entry, tainted, acked, ret>>

\* ---------------------------------------------------------------------
\* Uploaded cells.  A cell holds text: ok = FALSE is text the conversion
\* cannot read (a missing value is not among the inputs modelled).
\* A date cell may carry a time of day; a quantity cell is a decimal,
\* held in tenths; an amount cell is a number of currency units.
\* ---------------------------------------------------------------------
BadCell == [ok |-> FALSE, v |-> 0, hour |-> 0]
DateCells == [ok : {TRUE}, v : Days, hour : {0, 13}]
QtyCells == [ok : {TRUE}, v : {10, 15}, hour : {0}]
AmtCell(p) == [ok |-> TRUE, v |-> Price[p], hour |-> 0]

GoodRows ==
    { [date |-> d, product |-> p, quantity |-> q, amount |-> AmtCell(p)] :
        d \in DateCells, p \in Products, q \in QtyCells }

BadRows ==
    LET g == [date |-> [ok |-> TRUE, v |-> 1, hour |-> 0], product |-> "A",
              quantity |-> [ok |-> TRUE, v |-> 10, hour |-> 0],
              amount |-> [ok |-> TRUE, v |-> 1, hour |-> 0]]
    IN  { [g EXCEPT !.date = BadCell],
          [g EXCEPT !.quantity = BadCell],
          [g EXCEPT !.amount = BadCell] }

FileRows == GoodRows \cup BadRows

\* the rows of files that hold today's sales only
TodayRows ==
    {r \in FileRows : r.date.ok => r.date.v = FirstToday /\ r.date.hour = 0 /\ r.quantity.v = 10}

\* Header rows of an uploaded file.
Headers ==
    { {"date", "product", "quantity", "amount"},
      {"Date", "Product", "quantity", "AMOUNT"},
      {"date", "product", "quantity", "amount", "note"},
      {"date", "product", "quantity"},
      {"date", "product", "amount"} }

\* str.lower() on a column name
Lower(c) ==
    CASE c = "Date" -> "date"
      [] c = "Product" -> "product"
      [] c = "AMOUNT" -> "amount"
      [] OTHER -> c

\* pd.to_datetime(...).dt.date.astype(str): raises on unreadable text, drops the time of day
DateParses(c) == c.ok
ToIsoDate(c) == c.v
\* astype(int): raises on non-numeric text, truncates a decimal
IntParses(c) == c.ok
ToInt(c) == c.v \div 10
\* astype(float): raises on non-numeric text
FloatParsesAny(c) == TRUE
FloatParses(c) == c.ok
ToFloat(c) == c.v

RowParses(r) == DateParses(r.date) /\ IntParses(r.quantity) /\ FloatParses(r.amount)

\* one tuple of the records list
ToRecord(r) ==
    [date |-> ToIsoDate(r.date), product |-> r.product,
     quantity |-> ToInt(r.quantity), amount |-> ToFloat(r.amount)]

\* insert_sales: required_cols - set(df.columns)
MissingCols(cols) == Required \ cols

\* handle_document: expected_columns.issubset({c.lower() for c in df.columns})
HasExpected(cols) == Required \subseteq {Lower(c) : c \in cols}

\* ---------------------------------------------------------------------
\* The store
\* ---------------------------------------------------------------------
EmptyDb == [rows |-> <<>>, seq |-> 0]
NoTxn == [open |-> FALSE, rows |-> <<>>, seq |-> 0]
NoRet == [op |-> "none"]

\* AUTOINCREMENT: one more than the largest id ever assigned
NextIdStale(img) == db.seq + 1
NextId(img) == img.seq + 1

\* INSERT INTO sales (date, product, quantity, amount) VALUES (?, ?, ?, ?)
InsertRow(img, rec) ==
    [open |-> TRUE,
     rows |-> Append(img.rows,
                     [id |-> NextId(img), date |-> rec.date, product |-> rec.product,
                      quantity |-> rec.quantity, amount |-> rec.amount]),
     seq |-> NextId(img)]

\* The first write of a connection opens its transaction on the committed data.
Image(p) ==
    IF txn[p].open THEN txn[p]
    ELSE [open |-> TRUE, rows |-> db.rows, seq |-> db.seq]

\* A statement that writes needs SQLite's write lock: free, or already this
\* caller's.  A connection that finds it taken waits for it (its busy timeout,
\* 5 s by default, is taken not to run out).
CanWriteUnlocked(p) == TRUE
CanWrite(p) == lock = NoOne \/ lock = p

\* What a SELECT on a fresh connection reads: committed data only.
VisibleUncommitted == IF lock # NoOne THEN txn[lock].rows ELSE db.rows
Visible == db.rows

Fields(row) ==
    [date |-> row.date, product |-> row.product,
     quantity |-> row.quantity, amount |-> row.amount]

RECURSIVE BagOfSeq(_)
BagOfSeq(s) ==
    IF s = <<>> THEN EmptyBag ELSE SetToBag({Head(s)}) (+) BagOfSeq(Tail(s))

\* rows the callers in progress may still add
Pending ==
    LET RECURSIVE Sum(_)
        Sum(S) == IF S = {} THEN 0
                  ELSE LET p == CHOOSE x \in S : TRUE
                       IN  need[p] + Len(recs[p]) - sent[p] + Sum(S \ {p})
    IN  Sum(Callers)

Init ==
    /\ today = FirstToday
    /\ db = EmptyDb
    /\ lock = NoOne
    /\ txn = [p \in Callers |-> NoTxn]
    /\ pc = [p \in Callers |-> "idle"]
    /\ need = [p \in Callers |-> 0]
    /\ recs = [p \in Callers |-> <<>>]
    /\ sent = [p \in Callers |-> 0]
    /\ entry = [p \in Callers |-> <<>>]
    /\ tainted = [p \in Callers |-> FALSE]
    /\ acked = EmptyBag
    /\ ret = NoRet

\* ---------------------------------------------------------------------
\* Uploads: handle_document and insert_sales
\* ---------------------------------------------------------------------
\* A row the conversions of insert_sales are documented to reject.
Malformed(r) == ~r.date.ok \/ ~r.quantity.ok \/ ~r.amount.ok
\* A frame without one of the four columns insert_sales is documented to need.
LacksRequired(cols) == \E c \in Required : c \notin cols

UploadRet(p, how, stage, n, bad) ==
    [op |-> "upload", who |-> p, outcome |-> how, at |-> stage, count |-> n,
     before |-> entry[p], invalid |-> bad]

\* The call starts: the file's name and header are checked.  viaBot is
\* handle_document; otherwise insert_sales is called with the frame as it is.
Receive(p, viaBot, cap) ==
    /\ pc[p] = "idle"
    /\ \E h \in Headers, csv \in BOOLEAN :
         LET cols == IF viaBot THEN {Lower(c) : c \in h} ELSE h
             reject(how, bad) ==
                 /\ ret' = [op |-> "upload", who |-> p, outcome |-> how, at |-> "header",
                            count |-> 0, before |-> db.rows, invalid |-> bad]
                 /\ UNCHANGED <<pc, need, recs, sent, entry, tainted>>
         IN  IF viaBot /\ ~csv
               THEN reject("notcsv", FALSE)
             ELSE IF viaBot /\ ~HasExpected(h)
               THEN reject("format", LacksRequired(cols))
             ELSE IF MissingCols(cols) # {}
               THEN reject("error", LacksRequired(cols))
             ELSE \E n \in 0..MaxBatch :
                      /\ Len(db.rows) + Pending + n <= cap
                      /\ pc' = [pc EXCEPT ![p] = IF n = 0 THEN "write" ELSE "parse"]
                      /\ need' = [need EXCEPT ![p] = n]
                      /\ recs' = [recs EXCEPT ![p] = <<>>]
                      /\ sent' = [sent EXCEPT ![p] = 0]
                      /\ entry' = [entry EXCEPT ![p] = db.rows]
                      /\ tainted' = [tainted EXCEPT ![p] = LacksRequired(cols)]
                      /\ ret' = NoRet
    /\ UNCHANGED <<today, db, lock, txn, acked>>

\* The conversions and the records list, a row at a time: a row that
\* does not convert raises, and the call ends before any connection is opened.
Parse(p, rows) ==
    /\ pc[p] = "parse"
    /\ \E r \in rows :
         IF RowParses(r)
           THEN /\ recs' = [recs EXCEPT ![p] = Append(@, ToRecord(r))]
                /\ need' = [need EXCEPT ![p] = @ - 1]
                /\ tainted' = [tainted EXCEPT ![p] = @ \/ Malformed(r)]
                /\ pc' = [pc EXCEPT ![p] = IF need[p] = 1 THEN "write" ELSE "parse"]
                /\ ret' = NoRet
           ELSE /\ recs' = [recs EXCEPT ![p] = <<>>]
                /\ need' = [need EXCEPT ![p] = 0]
                /\ tainted' = [tainted EXCEPT ![p] = FALSE]
                /\ pc' = [pc EXCEPT ![p] = "idle"]
                /\ ret' = UploadRet(p, "error", "rows", 0, TRUE)
    /\ entry' = [entry EXCEPT ![p] = IF pc'[p] = "idle" THEN <<>> ELSE @]
    /\ UNCHANGED <<today, db, lock, txn, sent, acked>>

\* executemany: the next INSERT of the batch, inside the connection's transaction
Exec(p) ==
    /\ pc[p] = "write"
    /\ sent[p] < Len(recs[p])
    /\ CanWrite(p)
    /\ txn' = [txn EXCEPT ![p] = InsertRow(Image(p), recs[p][sent[p] + 1])]
    /\ lock' = p
    /\ sent' = [sent EXCEPT ![p] = @ + 1]
    /\ ret' = NoRet
    /\ UNCHANGED <<today, db, pc, need, recs, entry, tainted, acked>>

\* conn.commit(), return len(records), conn.close()
Commit(p) ==
    /\ pc[p] = "write"
    /\ sent[p] = Len(recs[p])
    /\ IF txn[p].open
         THEN /\ db' = [rows |-> txn[p].rows, seq |-> txn[p].seq]
              /\ lock' = NoOne
         ELSE UNCHANGED <<db, lock>>
    /\ txn' = [txn EXCEPT ![p] = NoTxn]
    /\ acked' = acked (+) BagOfSeq(recs[p])
    /\ ret' = UploadRet(p, "ok", "commit", Len(recs[p]), tainted[p])
    /\ pc' = [pc EXCEPT ![p] = "idle"]
    /\ recs' = [recs EXCEPT ![p] = <<>>]
    /\ sent' = [sent EXCEPT ![p] = 0]
    /\ tainted' = [tainted EXCEPT ![p] = FALSE]
    /\ entry' = [entry EXCEPT ![p] = <<>>]
    /\ UNCHANGED <<today, need>>

\* The calendar day changes.
Tick ==
    /\ today < MaxToday
    /\ today' = today + 1
    /\ ret' = NoRet
    /\ UNCHANGED <<db, lock, txn, pc, need, recs, sent, entry, tainted, acked>>

\* ---------------------------------------------------------------------
\* The queries of analytics.py
\* ---------------------------------------------------------------------
RECURSIVE SortAsc(_)
SortAsc(S) ==
    IF S = {} THEN <<>>
    ELSE LET m == CHOOSE x \in S : \A y \in S : x <= y
         IN  <<m>> \o SortAsc(S \ {m})

RECURSIVE SumAmount(_)
SumAmount(rows) ==
    IF rows = <<>> THEN 0 ELSE Head(rows).amount + SumAmount(Tail(rows))

\* WHERE date >= ?
FromCutoffStrict(d, cutoff) == d > cutoff
FromCutoff(d, cutoff) == d >= cutoff

\* SELECT date, SUM(amount) FROM sales WHERE date >= ? GROUP BY date ORDER BY date ASC
DailyTotals(rows, cutoff) ==
    LET kept == SelectSeq(rows, LAMBDA r : FromCutoff(r.date, cutoff))
        days == SortAsc({kept[i].date : i \in DOMAIN kept})
    IN  [i \in DOMAIN days |->
            [date |-> days[i],
             total |-> SumAmount(SelectSeq(kept, LAMBDA r : r.date = days[i]))]]

\* datetime.now().date() - timedelta(days=days - 1)
Cutoff(days) == today - (days - 1)

CalculateDailySales(days) == DailyTotals(Visible, Cutoff(days))

\* SELECT AVG(amount) FROM sales; 0.0 when there is no sale
CalculateAverageCheck ==
    IF Visible = <<>> THEN [num |-> 0, den |-> 1]
    ELSE [num |-> SumAmount(Visible), den |-> Len(Visible)]

ProductTotal(rows, p) == SumAmount(SelectSeq(rows, LAMBDA r : r.product = p))

\* GROUP BY product ORDER BY total DESC: every order the engine may give to ties
Rankings(rows) ==
    LET prods == {rows[i].product : i \in DOMAIN rows}
        n == Cardinality(prods)
    IN  { [i \in 1..n |-> [product |-> f[i], total |-> ProductTotal(rows, f[i])]] :
            f \in { g \in [1..n -> prods] :
                      /\ \A i, j \in 1..n : i # j => g[i] # g[j]
                      /\ \A i, j \in 1..n :
                            i < j => ProductTotal(rows, g[i]) >= ProductTotal(rows, g[j]) } }

\* LIMIT ?: SQLite reads a negative limit as no limit
Limit(s, limit) ==
    IF limit < 0 THEN s
    ELSE SubSeq(s, 1, IF limit < Len(s) THEN limit ELSE Len(s))

RECURSIVE SumTotals(_)
SumTotals(daily) ==
    IF daily = <<>> THEN 0 ELSE Head(daily).total + SumTotals(Tail(daily))

None == [none |-> TRUE]

\* forecast_sales(days): the mean of the daily totals, or None
ForecastSalesOverWindow(days) ==
    LET daily == CalculateDailySales(WindowDays)
    IN  IF Len(daily) < MinDays THEN None
        ELSE [none |-> FALSE, num |-> SumTotals(daily), den |-> WindowDays]

ForecastSales(days) ==
    LET daily == CalculateDailySales(WindowDays)
    IN  IF Len(daily) < MinDays THEN None
        ELSE [none |-> FALSE, num |-> SumTotals(daily), den |-> Len(daily)]

DaysArgs == {1, 2, WindowDays}
LimitArgs == {-1, 0, 1, TopLimit}

Frame == UNCHANGED <<today, db, lock, txn, pc, need, recs, sent, entry, tainted, acked>>

DailySales(args) ==
    /\ \E days \in args :
         ret' = [op |-> "daily", days |-> days, at |-> today, cutoff |-> Cutoff(days),
                 rows |-> CalculateDailySales(days), seen |-> Visible]
    /\ Frame

AverageCheck ==
    /\ ret' = [op |-> "average", value |-> CalculateAverageCheck, seen |-> Visible]
    /\ Frame

TopProducts(args) ==
    /\ \E limit \in args, ranked \in Rankings(Visible) :
         ret' = [op |-> "top", limit |-> limit, rows |-> Limit(ranked, limit),
                 seen |-> Visible]
    /\ Frame

Forecast ==
    /\ \E days \in {1, 2} :
         ret' = [op |-> "forecast", days |-> days, at |-> today,
                 value |-> ForecastSales(days), seen |-> Visible]
    /\ Frame

\* handle_report: the three queries, then the reply.  A query may raise
\* (a failure of the store): the handler's except branch answers for the
\* whole call, and the queries after it do not run.
ReportReplyEmptyFirst(raises, ranked) ==
    LET daily == CalculateDailySales(WindowDays)
        ok1 == raises # "daily"
        ok2 == raises # "average"
        ok3 == raises # "top"
        failed == {raises} \ {"none"}
        reply(how, parts) ==
            [op |-> "report", outcome |-> how, parts |-> parts, failed |-> failed,
             at |-> today,
             daily |-> IF "daily" \in parts THEN daily ELSE <<>>,
             average |-> IF "average" \in parts THEN CalculateAverageCheck
                         ELSE [num |-> 0, den |-> 1],
             top |-> IF "top" \in parts THEN Limit(ranked, TopLimit) ELSE <<>>]
    IN  IF ~ok1 THEN reply("error", {})
        ELSE IF daily = <<>> THEN reply("nodata", {})
        ELSE IF ~ok2 THEN reply("error", {})
        ELSE IF ~ok3 THEN reply("error", {})
        ELSE reply("report", {"daily", "average", "top"})

ReportReply(raises, ranked) ==
    LET daily == CalculateDailySales(WindowDays)
        ok1 == raises # "daily"
        ok2 == raises # "average"
        ok3 == raises # "top"
        failed == {raises} \ {"none"}
        reply(how, parts) ==
            [op |-> "report", outcome |-> how, parts |-> parts, failed |-> failed,
             at |-> today,
             daily |-> IF "daily" \in parts THEN daily ELSE <<>>,
             average |-> IF "average" \in parts THEN CalculateAverageCheck
                         ELSE [num |-> 0, den |-> 1],
             top |-> IF "top" \in parts THEN Limit(ranked, TopLimit) ELSE <<>>]
    IN  IF ~ok1 THEN reply("error", {})
        ELSE IF ~ok2 THEN reply("error", {})
        ELSE IF ~ok3 THEN reply("error", {})
        ELSE IF daily = <<>> THEN reply("nodata", {})
        ELSE reply("report", {"daily", "average", "top"})

Report ==
    /\ \E raises \in {"none", "daily", "average", "top"}, ranked \in Rankings(Visible) :
         ret' = ReportReply(raises, ranked)
    /\ Frame

Quiet == \A p \in Callers : pc[p] = "idle"

Next ==
    \/ \E viaBot \in BOOLEAN : Receive("u1", viaBot, MaxRows)
    \/ Parse("u1", FileRows)
    \/ Exec("u1")
    \/ Commit("u1")
    \/ Quiet /\ Tick
    \/ Quiet /\ DailySales(DaysArgs)
    \/ Quiet /\ AverageCheck
    \/ Quiet /\ TopProducts(LimitArgs)
    \/ Quiet /\ Forecast
    \/ Quiet /\ Report

\* One handler at a time.
Spec == Init /\ [][Next]_vars

\* Handlers on worker threads: two uploads and the queries, interleaved.
NextThreaded ==
    \/ \E p \in Callers, viaBot \in BOOLEAN : Receive(p, viaBot, MaxRows + 1)
    \/ \E p \in Callers : Parse(p, TodayRows)
    \/ \E p \in Callers : Exec(p)
    \/ \E p \in Callers : Commit(p)
    \/ DailySales({WindowDays})
    \/ AverageCheck
    \/ TopProducts({TopLimit})

SpecThreaded == Init /\ [][NextThreaded]_vars

\* ---------------------------------------------------------------------
\* Properties
\* ---------------------------------------------------------------------
StoredFields == [i \in DOMAIN db.rows |-> Fields(db.rows[i])]
Ids(rows) == {rows[i].id : i \in DOMAIN rows}
ReadOps == {"daily", "average", "top", "forecast", "report"}

\* the sum of the amounts of the stored rows whose index is in S
RECURSIVE AmountOf(_)
AmountOf(S) ==
    IF S = {} THEN 0
    ELSE LET i == CHOOSE x \in S : TRUE
         IN  db.rows[i].amount + AmountOf(S \ {i})

StoredFrom(cutoff) == {i \in DOMAIN db.rows : db.rows[i].date >= cutoff}
StoredOn(d) == {i \in DOMAIN db.rows : db.rows[i].date = d}
DatesFrom(cutoff) == {db.rows[i].date : i \in StoredFrom(cutoff)}

C2_ReadSeesWholeBatches ==
    ret.op \in {"daily", "average", "top"} =>
        BagOfSeq([i \in DOMAIN ret.seen |-> Fields(ret.seen[i])]) = acked

\* A query answered while u1 has written one row of a two-row batch.
C2_Witness ==
    /\ ret.op \in {"daily", "average", "top"}
    /\ pc["u1"] = "write" /\ sent["u1"] = 1 /\ Len(recs["u1"]) = 2
    /\ ret.seen # <<>>

IdsAscending == \A i, j \in DOMAIN db.rows : i < j => db.rows[i].id < db.rows[j].id
StoreOnlyGrows ==
    /\ Len(db.rows') >= Len(db.rows)
    /\ SubSeq(db.rows', 1, Len(db.rows)) = db.rows
ReadsLeaveStore == ret'.op \in ReadOps => db' = db

\* C4: the store is append-only: a stored record stays as it is, ids grow
\* strictly in insertion order, and a query leaves the store unchanged.
C4_AppendOnly == [] IdsAscending /\ [][StoreOnlyGrows /\ ReadsLeaveStore]_vars

\* A forecast asked after a second batch was added to the store.
C4_Witness ==
    /\ ret.op = "forecast"
    /\ Len(db.rows) = MaxRows
    /\ db.rows[MaxRows].id = MaxRows

\* the runs of consecutively stored rows an inserted batch can be
Runs ==
    {r \in (DOMAIN db.rows) \X (DOMAIN db.rows) : r[1] <= r[2] /\ r[2] - r[1] < MaxBatch}
RunDates(r) == {db.rows[k].date : k \in r[1]..r[2]}
Earliest(S) == CHOOSE d \in S : \A e \in S : d <= e

\* C5: the daily totals from a cutoff are, in strictly ascending date
\* order, one entry per distinct stored date >= cutoff, each with the sum
\* of the amounts of the stored records of that date; every date of an
\* inserted batch whose earliest date is the cutoff is among them.
C5_DailyTotals ==
    ret.op = "daily" =>
        /\ \A i, j \in DOMAIN ret.rows : i < j => ret.rows[i].date < ret.rows[j].date
        /\ {ret.rows[i].date : i \in DOMAIN ret.rows} = DatesFrom(ret.cutoff)
        /\ \A i \in DOMAIN ret.rows :
              /\ StoredOn(ret.rows[i].date) # {}
              /\ ret.rows[i].total = AmountOf(StoredOn(ret.rows[i].date))
        /\ \A r \in Runs :
              Earliest(RunDates(r)) = ret.cutoff =>
                  RunDates(r) \subseteq {ret.rows[i].date : i \in DOMAIN ret.rows}

\* The totals from the earliest date of a stored two-date batch, with an
\* older record left out.
C5_Witness ==
    /\ ret.op = "daily"
    /\ \E r \in Runs : Earliest(RunDates(r)) = ret.cutoff /\ Cardinality(RunDates(r)) = 2
    /\ Len(ret.rows) = 2
    /\ \E i \in DOMAIN db.rows : db.rows[i].date < ret.cutoff

InWindow(d) == today - (WindowDays - 1) <= d /\ d <= today
WindowDates == {db.rows[i].date : i \in {k \in DOMAIN db.rows : InWindow(db.rows[k].date)}}

\* C6: forecast_sales returns None whenever fewer than 3 distinct days of
\* sales lie in the trailing 7-day window (today and the 6 days before).
C6_InsufficientData ==
    (ret.op = "forecast" /\ Cardinality(WindowDates) < MinDays) => ret.value = None

\* C7: when the 7-day daily sales have n >= 3 entries, forecast_sales
\* returns the sum of those totals divided by n, whatever its days argument.
C7_ForecastIsMean ==
    ret.op = "forecast" =>
        LET from == today - (WindowDays - 1)
            n == Cardinality(DatesFrom(from))
        IN  n >= MinDays =>
              ret.value = [none |-> FALSE, num |-> AmountOf(StoredFrom(from)), den |-> n]

\* A forecast with days = 2 over three days of sales of unequal totals.
C7_Witness ==
    /\ ret.op = "forecast" /\ ret.days = 2
    /\ ret.value # None
    /\ ret.value.den = MinDays
    /\ ret.value.num = 4

\* C8: get_top_products(limit) is empty for every limit <= 0 and has at
\* most limit entries for limit > 0.
C8_TopLimit ==
    ret.op = "top" =>
        /\ ret.limit <= 0 => ret.rows = <<>>
        /\ ret.limit > 0 => Len(ret.rows) <= ret.limit

C10_LastDaysOnly ==
    (ret.op = "daily" /\ ret.days >= 1) =>
        /\ \A i \in DOMAIN ret.rows :
              /\ today - (ret.days - 1) <= ret.rows[i].date
              /\ ret.rows[i].date <= today
        /\ Len(ret.rows) <= ret.days

====
